---- MODULE Spec2Model ----
(***************************************************************************)
(* vartools: the rolling backtest of DynamicBacktesting.simulation, the    *)
(* six weight optimizations of OptimizePortfolioWeights it drives, the     *)
(* confidence-level validation of the public operations, and the           *)
(* historical VaR and CVaR functions of vartools.risk.                     *)
(*                                                                         *)
(* Numbers are exact rationals <<num, den>> (den > 0, lowest terms).  A    *)
(* DataFrame of prices is a sequence of rows [date, px]; a date is the row *)
(* position in the full price history, so dates are ascending and unique.  *)
(* scipy.optimize.minimize is outside the repository: it is an oracle that *)
(* either converges to a point satisfying the bounds and the constraint it *)
(* was given, or stops without converging at some iterate.                 *)
(***************************************************************************)
EXTENDS Integers, Sequences, FiniteSets, TLC

(* ---------------------------------------------------------------- bounds *)
MaxLen == 76        \* longest price history, in rows
MaxMonths == 1      \* longest rebalancing interval, in months
NAssets == 2        \* columns of the price table
MaxScenario == 1    \* price patterns tried
MaxSolver == 2      \* solver behaviours tried
SpikeEvery == 17    \* a price doubles for one row every SpikeEvery rows
MaxRows == 4        \* longest table handed to a risk function, in rows
MaxTable == 25      \* tables handed to a risk function
MaxScale == 3       \* largest common factor applied to position sizes

(* ----------------------------------------------------- program constants *)
TradingDays == 252
MonthsPerYear == 12

CapitalSet == {0, 100}
AlphaSet == {0, 95, 100}

(* ------------------------------------------------------------- rationals *)
Abs(i) == IF i < 0 THEN -i ELSE i

RECURSIVE GCD(_, _)
GCD(a, b) == IF b = 0 THEN a ELSE GCD(b, a % b)

Norm(n, d) == LET g == GCD(Abs(n), d) IN <<n \div g, d \div g>>

Zero == <<0, 1>>
One == <<1, 1>>
\* both parts of p are small enough for a product of two such numbers, and a
\* sum of two such products, to be computed directly
Small(p) == -30000 < p[1] /\ p[1] < 30000 /\ p[2] < 30000

\* a zero operand needs no arithmetic; with a large operand, sums and
\* comparisons go through the least common
\* denominator and products are reduced crosswise first
RAdd(p, q) ==
    IF p = Zero THEN q
    ELSE IF q = Zero THEN p
    ELSE IF Small(p) /\ Small(q) THEN Norm(p[1] * q[2] + q[1] * p[2], p[2] * q[2])
    ELSE LET g == GCD(p[2], q[2])
         IN  Norm(p[1] * (q[2] \div g) + q[1] * (p[2] \div g), p[2] * (q[2] \div g))
RSub(p, q) ==
    IF q = Zero THEN p
    ELSE IF Small(p) /\ Small(q) THEN Norm(p[1] * q[2] - q[1] * p[2], p[2] * q[2])
    ELSE LET g == GCD(p[2], q[2])
         IN  Norm(p[1] * (q[2] \div g) - q[1] * (p[2] \div g), p[2] * (q[2] \div g))
RMul(p, q) ==
    IF p = Zero \/ q = Zero THEN Zero
    ELSE IF Small(p) /\ Small(q) THEN Norm(p[1] * q[1], p[2] * q[2])
    ELSE LET a == Norm(p[1], q[2])
             b == Norm(q[1], p[2])
         IN  <<a[1] * b[1], a[2] * b[2]>>
RLeq(p, q) ==
    IF Small(p) /\ Small(q) THEN p[1] * q[2] <= q[1] * p[2]
    ELSE LET g == GCD(p[2], q[2]) IN p[1] * (q[2] \div g) <= q[1] * (p[2] \div g)
RLess(p, q) ==
    IF Small(p) /\ Small(q) THEN p[1] * q[2] < q[1] * p[2]
    ELSE LET g == GCD(p[2], q[2]) IN p[1] * (q[2] \div g) < q[1] * (p[2] \div g)
RAbs(p) == <<Abs(p[1]), p[2]>>

RECURSIVE SumTo(_, _)
SumTo(v, k) == IF k = 0 THEN Zero ELSE RAdd(SumTo(v, k - 1), v[k])
\* Python's sum over a vector
Sum(v) == SumTo(v, Len(v))

\* elementwise product of two vectors (Series * ndarray)
Times(r, wv) == [i \in 1..Len(r) |-> RMul(r[i], wv[i])]

(* ------------------------------------------------------- Python built-ins *)
\* round(n / d) for n >= 0, d > 0: ties go to the even neighbour
PyRound(n, d) ==
    LET q == n \div d
        r == n % d
    IN  IF 2 * r < d THEN q
        ELSE IF 2 * r > d THEN q + 1
        ELSE IF q % 2 = 0 THEN q ELSE q + 1

Min(a, b) == IF a < b THEN a ELSE b
Last(s) == s[Len(s)]

(* ------------------------------------------------------------ DataFrames *)
\* df.iloc[a:b, :] for 0 <= a <= b (a slice never raises, it clamps)
Iloc(df, a, b) == SubSeq(df, Min(a, Len(df)) + 1, Min(b, Len(df)))

\* df.pct_change().dropna(): row j is the change from price row j to j+1 and
\* carries the later row's date; the first (all-NaN) row is dropped
PctChange(df) ==
    [j \in 1..(IF Len(df) = 0 THEN 0 ELSE Len(df) - 1) |->
        [date |-> df[j + 1].date,
         r |-> [a \in 1..Len(df[j].px) |->
                   Norm(df[j + 1].px[a] - df[j].px[a], df[j].px[a])]]]

Dates(df) == [j \in 1..Len(df) |-> df[j].date]

\* the rows optimize_weights slices for period p: iloc[n*p : n*(p+1)]
WindowLo(n, p) == n * p
WindowHiLate(n, p) == n * (p + 2)
WindowHi(n, p) == n * (p + 1)

\* a column total (DataFrame.sum over rows lo..hi), added pairwise
RECURSIVE ColumnSum(_, _, _)
ColumnSum(v, lo, hi) ==
    IF lo > hi THEN Zero
    ELSE IF lo = hi THEN v[lo]
    ELSE LET mid == (lo + hi) \div 2
         IN  RAdd(ColumnSum(v, lo, mid), ColumnSum(v, mid + 1, hi))

\* the totals of the first a columns of the rows rt
RECURSIVE ColumnTotals(_, _)
ColumnTotals(rt, a) ==
    IF a = 0 THEN <<>>
    ELSE Append(ColumnTotals(rt, a - 1), ColumnSum([k \in 1..Len(rt) |-> rt[k].r[a]], 1, Len(rt)))

\* the covariance of columns a and b of n rows whose column totals are tot:
\* (n sum(xy) - sum(x) sum(y)) / (n (n - 1))
CovEntry(rt, n, tot, a, b) ==
    RMul(RSub(RMul(<<n, 1>>, ColumnSum([k \in 1..n |-> RMul(rt[k].r[a], rt[k].r[b])], 1, n)),
              RMul(tot[a], tot[b])),
         <<1, n * (n - 1)>>)

CovFrom(rt, n, tot) ==
    [a \in 1..NAssets |-> [b \in 1..NAssets |->
        IF n < 2 THEN <<0, 0>> ELSE CovEntry(rt, n, tot, a, b)]]

\* returns.cov(): the sample covariance (ddof = 1) of every pair of columns;
\* with fewer than two rows every entry is NaN
Cov(rt) == CovFrom(rt, Len(rt), ColumnTotals(rt, NAssets))

\* self.rets = temp_rets: the field is rebound to the window's own returns
AssignedReturnsOnce(temp_rets, held) == IF held = <<>> THEN temp_rets ELSE held
AssignedReturns(temp_rets, held) == temp_rets

\* where the initial optimization window ends: prices.iloc[:int(n_days), :]
OptimizationEndShort(n) == n - 1
OptimizationEnd(n) == n

\* where the backtesting region starts: prices.iloc[int(n_days):, :]
BacktestFromFirstRow(n) == 0
BacktestStart(n) == n

\* after a rebalancing day: periods_counter += 1
NextPeriodSkipping(p) == p + 2
NextPeriod(p) == p + 1

\* the number of loop steps: range(len(backtesting_data) - 1)
LoopDaysShort(bt) == Len(bt) - 2
LoopDays(bt) == Len(bt) - 1

\* the loop's test for an ordinary day: day_counter < n_days
HoldWeightsOneMore(dc, n) == dc <= n
HoldWeights(dc, n) == dc < n

\* df['Date'] = backtesting_data.index
ResultDatesOfReturns(bt) == [j \in 1..(IF Len(bt) = 0 THEN 0 ELSE Len(bt) - 1) |-> bt[j + 1].date]
ResultDates(bt) == Dates(bt)

\* the price of column a at row position row in price pattern scn
PriceAt(scn, row, a) == IF (row + a * scn) % SpikeEvery = 0 THEN 2 ELSE 1

PriceTable(scn, len, cols) ==
    [j \in 1..len |-> [date |-> j - 1,
                       px |-> [a \in 1..Len(cols) |-> PriceAt(scn, j - 1, cols[a])]]]

(* ------------------------------------------------------------ strategies *)
\* the order optimize_weights runs and returns them in
StrategyOrder == <<"minvar", "sharpe", "semivar", "omega", "min_cvar", "mcc">>
Strategies == {StrategyOrder[i] : i \in 1..Len(StrategyOrder)}
StrategyIndex(s) == CHOOSE i \in 1..Len(StrategyOrder) : StrategyOrder[i] = s

Uniform(n) == [i \in 1..n |-> Norm(1, n)]
Ones(n) == [i \in 1..n |-> One]

\* a box bound per asset; hi_none is scipy's (lo, None)
Box(lo, hi) == [lo |-> <<lo, 1>>, hi |-> <<hi, 1>>, hi_none |-> FALSE]
BoxFrom(lo) == [lo |-> <<lo, 1>>, hi |-> <<lo, 1>>, hi_none |-> TRUE]

\* def constraint(w): return sum(w)-1
constraintOffTarget(wv) == RSub(Sum(wv), <<2, 1>>)
constraint(wv) == RSub(Sum(wv), One)

InBounds(v, b) ==
    \A i \in 1..Len(v) : RLeq(b.lo, v[i]) /\ (b.hi_none \/ RLeq(v[i], b.hi))

(* ---------------------------------------------------------------- solver *)
\* the points a converged run may end at
Grid(n) == [1..n -> {Zero, Norm(1, n), One, <<2, 1>>}]

MaxOf(v) == CHOOSE m \in {v[i] : i \in 1..Len(v)} : \A i \in 1..Len(v) : RLeq(v[i], m)

\* minimize(fun, x0, bounds=b, constraints={'fun': constraint, 'type': 'eq'}):
\* kind 0 stops at x0 without converging, kinds 1..n converge to the feasible
\* point heaviest in asset kind, kind n+1 converges to the most even feasible
\* point, kind n+2 stops without converging at the all-ones iterate.
Minimize(x0, b, kind) ==
    LET n == Len(x0)
        feas == {v \in Grid(n) : constraint(v) = Zero /\ InBounds(v, b)}
    IN  IF kind = 0 \/ (kind <= n + 1 /\ feas = {})
          THEN [x |-> x0, success |-> FALSE]
        ELSE IF kind <= n
          THEN [x |-> CHOOSE v \in feas : \A u \in feas : RLeq(u[kind], v[kind]),
                success |-> TRUE]
        ELSE IF kind = n + 1
          THEN [x |-> CHOOSE v \in feas : \A u \in feas : RLeq(MaxOf(v), MaxOf(u)),
                success |-> TRUE]
        ELSE [x |-> Ones(n), success |-> FALSE]

\* which way the solver goes for strategy s in the call-th optimization of a
\* run: under behaviour 0 every call converges, under the others some do not
SolverKind(sv, s, call, n) ==
    IF sv = 0 THEN 1 + ((StrategyIndex(s) + call) % (n + 1))
    ELSE (sv + StrategyIndex(s) + call) % (n + 3)

(* ------------------------------------------------------------ validation *)
\* _validate_confidence: raises unless 0 < value < 100
ValidConfidence(v) == 0 < v /\ v < 100

(* ----------------------------------------------------------------- state *)
VARIABLES
    prices, prices_benchmark, months, capital, alpha,  \* DynamicBacktesting fields
    rets, cov, n_stocks,                                    \* inherited optimizer fields
    solver,                                            \* how minimize behaves in this run
    n_days, backtesting_data, backtesting_rets,        \* simulation locals
    day, day_counter, periods_counter,
    value, w,                                          \* the six lists, the six weights
    call_prices, call_period, caller,                  \* optimize_weights arguments
    rets_benchmark, ret,                               \* optimize_weights locals
    df,                                                \* the returned table
    pc, err,
    optLog, w_call, applied,                           \* history
    op, conf, long, step, work,                        \* one call of a public operation
    data, positions, out                               \* its arguments and its outcome

vars == <<prices, prices_benchmark, months, capital, alpha, rets, cov, n_stocks, solver,
          n_days, backtesting_data, backtesting_rets, day, day_counter,
          periods_counter, value, w, call_prices, call_period, caller,
          rets_benchmark, ret, df, pc, err, optLog, w_call, applied,
          op, conf, long, step, work, data, positions, out>>

api == <<op, conf, long, step, work, data, positions, out>>

inputs == <<prices, prices_benchmark, months, capital, alpha, solver>>
locals == <<n_days, backtesting_data, backtesting_rets>>
counters == <<day, day_counter, periods_counter>>

NoWeights == [s \in Strategies |-> <<>>]
NoFrame == [index |-> <<>>, columns |-> [s \in Strategies |-> <<>>]]
NaT == -1

\* no public operation is being called
NoCall ==
    /\ op = "none"
    /\ conf = 0
    /\ long = TRUE
    /\ step = "none"
    /\ work = <<>>
    /\ data = <<>>
    /\ positions = <<>>
    /\ out = [raised |-> "none"]

\* a DynamicBacktesting right after __init__, with the dummy empty optimizer
Constructed ==
    /\ rets = <<>>
    /\ cov = <<>>          \* pd.DataFrame().cov(): an empty frame
    /\ n_stocks = 0
    /\ n_days = 0
    /\ backtesting_data = <<>>
    /\ backtesting_rets = <<>>
    /\ day = 0
    /\ day_counter = 0
    /\ periods_counter = 0
    /\ value = [s \in Strategies |-> <<>>]
    /\ w = NoWeights
    /\ call_prices = <<>>
    /\ call_period = 0
    /\ caller = "none"
    /\ rets_benchmark = <<>>
    /\ ret = NoWeights
    /\ df = NoFrame
    /\ pc = "start"
    /\ err = "none"
    /\ optLog = <<>>
    /\ w_call = 0
    /\ applied = <<>>

\* DynamicBacktesting.__init__ on the arguments of one run
Init ==
    /\ \E len \in 0..MaxLen, scn \in 1..MaxScenario :
          /\ prices = PriceTable(scn, len, [a \in 1..NAssets |-> a])
          /\ prices_benchmark = PriceTable(scn, len, <<0>>)
    /\ months \in 0..MaxMonths
    /\ capital \in CapitalSet
    /\ alpha \in AlphaSet
    /\ solver \in 0..MaxSolver
    /\ Constructed
    /\ NoCall

\* round(len(prices) / 252 / (months / 12))
Periods(len, m) == PyRound(MonthsPerYear * len, TradingDays * m)

\* simulation, up to its first call of optimize_weights
SimulationStart ==
    /\ pc = "start"
    /\ IF months = 0 \/ Periods(Len(prices), months) = 0
         THEN /\ pc' = "error"
              /\ err' = "ZeroDivisionError"
              /\ UNCHANGED <<locals, counters, value, call_prices, call_period, caller>>
         ELSE LET n == PyRound(Len(prices), Periods(Len(prices), months))
                  opt_data == Iloc(prices, 0, OptimizationEnd(n))
                  bt == Iloc(prices, BacktestStart(n), Len(prices))
              IN  /\ n_days' = n
                  /\ backtesting_data' = bt
                  /\ backtesting_rets' = PctChange(bt)
                  /\ day' = 0
                  /\ day_counter' = 0
                  /\ periods_counter' = 0
                  /\ value' = [s \in Strategies |-> << <<capital, 1>> >>]
                  /\ call_prices' = opt_data
                  /\ call_period' = 0
                  /\ caller' = "initial"
                  /\ pc' = "slice"
                  /\ err' = err
    /\ UNCHANGED <<api, inputs, rets, cov, n_stocks, w, rets_benchmark, ret, df,
                   optLog, w_call, applied>>

NoResult == [ran |-> FALSE, success |-> FALSE, x0 |-> <<>>, bounds |-> <<>>, x |-> <<>>,
             w |-> <<>>, carries |-> {}]

\* optimize_weights, up to the first strategy: the two slices, their returns,
\* and the inherited fields overwritten
OptimizeWeightsSlice ==
    /\ pc = "slice"
    /\ LET lo == WindowLo(n_days, call_period)
           hi == WindowHi(n_days, call_period)
           temp_data == Iloc(call_prices, lo, hi)
           temp_bench == Iloc(prices_benchmark, lo, hi)
           temp_rets == PctChange(temp_data)
       IN  /\ rets_benchmark' = PctChange(temp_bench)
           /\ rets' = AssignedReturns(temp_rets, rets)
           /\ cov' = Cov(temp_rets)
           /\ n_stocks' = NAssets      \* temp_rets.shape[1]
           /\ optLog' = Append(optLog, [rows |-> Dates(temp_data),
                                        bench |-> Dates(temp_bench),
                                        periods |-> call_period,
                                        res |-> [s \in Strategies |-> NoResult]])
    /\ ret' = NoWeights
    /\ pc' = "opt_min_var"
    /\ UNCHANGED <<api, inputs, locals, counters, value, w, call_prices, call_period,
                   caller, df, err, w_call, applied>>

\* result.x of one strategy's minimize call
Solve(s, x0, b) == Minimize(x0, b, SolverKind(solver, s, Len(optLog), Len(x0)))

\* the return statement of each opt_* method: return result.x
ReturnedOnlyWhenConverged(r, x0) == IF r.success THEN r.x ELSE x0
Returned(r, x0) == r.x

\* what the returned value carries: the weight vector and nothing else
ReturnCarries == {"x"}

\* one strategy has run: its weights are kept for the return
Kept(s, r, x0, b, next) ==
    /\ ret' = [ret EXCEPT ![s] = Returned(r, x0)]
    /\ optLog' = [optLog EXCEPT ![Len(optLog)].res[s] =
                     [ran |-> TRUE, success |-> r.success, x0 |-> x0, bounds |-> b,
                      x |-> r.x, w |-> Returned(r, x0), carries |-> ReturnCarries]]
    /\ pc' = next
    /\ err' = err

\* one opt_* method: minimize from x0 inside the bounds b, return result.x
Ran(s, x0, b, next) == Kept(s, Solve(s, x0, b), x0, b, next)

Raised(e) ==
    /\ pc' = "error"
    /\ err' = e
    /\ UNCHANGED <<ret, optLog>>

OptFrame == <<api, inputs, rets, cov, n_stocks, locals, counters, value, w, call_prices,
              call_period, caller, rets_benchmark, df, w_call, applied>>

opt_min_var ==
    /\ pc = "opt_min_var"
    /\ LET w0 == Uniform(n_stocks)
       IN  Ran("minvar", w0, Box(0, 1), "opt_max_sharpe")
    /\ UNCHANGED OptFrame

opt_max_sharpe ==
    /\ pc = "opt_max_sharpe"
    /\ LET w0 == Ones(NAssets)   \* np.ones(len(rets.T)): one per column of rets
       IN  Ran("sharpe", w0, BoxFrom(0), "opt_min_semivar")
    /\ UNCHANGED OptFrame

opt_min_semivar ==
    /\ pc = "opt_min_semivar"
    /\ LET w0 == Uniform(n_stocks)
       IN  Ran("semivar", w0, Box(0, 3), "opt_max_omega")
    /\ UNCHANGED OptFrame

opt_max_omega ==
    /\ pc = "opt_max_omega"
    /\ LET w0 == Uniform(n_stocks)
       IN  Ran("omega", w0, Box(0, 3), "opt_min_cvar")
    /\ UNCHANGED OptFrame

opt_min_cvar ==
    /\ pc = "opt_min_cvar"
    /\ IF ~ValidConfidence(alpha)
         THEN Raised("ValueError")
         ELSE LET w0 == Uniform(n_stocks)
              IN  Ran("min_cvar", w0, Box(0, 1), "opt_mcc")
    /\ UNCHANGED OptFrame

opt_mcc ==
    /\ pc = "opt_mcc"
    /\ IF ~ValidConfidence(alpha)
         THEN Raised("ValueError")
         ELSE LET w0 == Uniform(n_stocks)
              IN  Ran("mcc", w0, Box(0, 1), "return")
    /\ UNCHANGED OptFrame

\* the six appends of one loop step: each list grows by its own last value
\* times 1 + sum(backtesting_rets.iloc[day, :] * w_<strategy>)
GrowSharedWeights(lists, row, weights) ==
    [s \in Strategies |->
        Append(lists[s],
               RMul(Last(lists[s]), RAdd(One, Sum(Times(row.r, weights["minvar"])))))]

Grow(lists, row, weights) ==
    [s \in Strategies |->
        Append(lists[s], RMul(Last(lists[s]), RAdd(One, Sum(Times(row.r, weights[s])))))]

\* the first optimize_weights call returns into the six weight variables
ReturnInitial ==
    /\ pc = "return"
    /\ caller = "initial"
    /\ w' = ret
    /\ w_call' = Len(optLog)
    /\ pc' = "loop"
    /\ UNCHANGED <<api, inputs, rets, cov, n_stocks, locals, counters, value, call_prices,
                   call_period, caller, rets_benchmark, ret, df, err, optLog, applied>>

\* a loop step with day_counter < n_days
SimulateDay ==
    /\ pc = "loop"
    /\ day < LoopDays(backtesting_data)
    /\ HoldWeights(day_counter, n_days)
    /\ value' = Grow(value, backtesting_rets[day + 1], w)
    /\ applied' = Append(applied, w_call)
    /\ day_counter' = day_counter + 1
    /\ day' = day + 1
    /\ UNCHANGED <<api, inputs, rets, cov, n_stocks, locals, periods_counter, w, call_prices,
                   call_period, caller, rets_benchmark, ret, df, pc, err, optLog, w_call>>

\* the table the loop passes to optimize_weights
RebalanceFullHistory == prices
RebalancePrices == backtesting_data

\* a loop step with day_counter >= n_days, up to its call of optimize_weights
RebalanceCall ==
    /\ pc = "loop"
    /\ day < LoopDays(backtesting_data)
    /\ ~HoldWeights(day_counter, n_days)
    /\ call_prices' = RebalancePrices
    /\ call_period' = periods_counter
    /\ caller' = "rebalance"
    /\ pc' = "slice"
    /\ UNCHANGED <<api, inputs, rets, cov, n_stocks, locals, counters, value, w, rets_benchmark,
                   ret, df, err, optLog, w_call, applied>>

\* the rest of that loop step: the new weights, the six appends, the counters
ReturnRebalance ==
    /\ pc = "return"
    /\ caller = "rebalance"
    /\ w' = ret
    /\ w_call' = Len(optLog)
    /\ value' = Grow(value, backtesting_rets[day + 1], ret)
    /\ applied' = Append(applied, Len(optLog))
    /\ periods_counter' = NextPeriod(periods_counter)
    /\ day_counter' = 0 + 1
    /\ day' = day + 1
    /\ pc' = "loop"
    /\ UNCHANGED <<api, inputs, rets, cov, n_stocks, locals, call_prices, call_period, caller,
                   rets_benchmark, ret, df, err, optLog>>

\* the table built after the loop.  Assigning a non-empty list to a frame whose
\* index is empty reindexes the frame to the list, and the dates become NaT.
Frame(index, columns) ==
    [index |-> IF Len(index) = 0
                 THEN [j \in 1..Len(columns["minvar"]) |-> NaT]
                 ELSE index,
     columns |-> columns]

BuildResult ==
    /\ pc = "loop"
    /\ ~(day < LoopDays(backtesting_data))
    /\ df' = Frame(ResultDates(backtesting_data), value)
    /\ pc' = "done"
    /\ UNCHANGED <<api, inputs, rets, cov, n_stocks, locals, counters, value, w, call_prices,
                   call_period, caller, rets_benchmark, ret, err, optLog, w_call, applied>>

Next ==
    \/ SimulationStart
    \/ OptimizeWeightsSlice
    \/ opt_min_var
    \/ opt_max_sharpe
    \/ opt_min_semivar
    \/ opt_max_omega
    \/ opt_min_cvar
    \/ opt_mcc
    \/ ReturnInitial
    \/ SimulateDay
    \/ RebalanceCall
    \/ ReturnRebalance
    \/ BuildResult

Spec == Init /\ [][Next]_vars

\* the call has returned its result or raised
Terminated == pc \in {"done", "error"}

\* simulation is one sequential call: until it has ended it keeps executing
\* its next statement.  For the call as a whole this is weak fairness of Next
\* with the end of the call written in place of ~ENABLED <<Next>>_vars (under
\* [][Next]_vars a step that changes vars is a step of Next); for the
\* statements that only pass control it is stated as such.
Fairness ==
    /\ []<>Terminated \/ []<><<TRUE>>_vars
    /\ WF_vars(ReturnInitial)
    /\ WF_vars(RebalanceCall)
    /\ WF_vars(BuildResult)

SpecLive == Spec /\ Fairness

(* ------------------------------------------ calls of public operations *)
\* the operations that take a confidence level
RiskOps == {"risk.var_stocks", "risk.var_forex", "risk.var_weights",
            "risk.cvar_weights", "risk.cvar_contributions", "risk.var_apl"}
OptimizerOps == {"optimization.opt_min_cvar", "optimization.opt_mcc"}
\* the functions vartools/__init__.py defines itself
PackageOps == {"vartools.var_stocks", "vartools.var_forex", "vartools.var_weights"}
PublicOps == RiskOps \cup OptimizerOps \cup PackageOps

\* the operations with a long/short argument
DirectedOps == {"risk.var_stocks", "risk.var_forex", "risk.var_apl",
                "vartools.var_stocks", "vartools.var_forex"}

\* the operations whose first statement is _validate_confidence
ValidatingOps == RiskOps \cup OptimizerOps

ConfSet == {-5, 0, 1, 95, 100, 150}

\* the q of the operation's np.percentile(..., q) call
PercentileArg(o, c, lg) == IF o \in DirectedOps /\ ~lg THEN c ELSE 100 - c

\* np.percentile raises unless 0 <= q <= 100
PercentileAccepts(q) == 0 <= q /\ q <= 100

InitCall ==
    /\ op \in PublicOps
    /\ conf \in ConfSet
    /\ long \in (IF op \in DirectedOps THEN BOOLEAN ELSE {TRUE})
    /\ step = "call"
    /\ work = <<>>
    /\ data = <<>>
    /\ positions = <<>>
    /\ out = [raised |-> "none"]
    /\ prices = <<>>
    /\ prices_benchmark = <<>>
    /\ months = 0
    /\ capital = 0
    /\ alpha = 0
    /\ solver = 0
    /\ Constructed

backtest == <<prices, prices_benchmark, months, capital, alpha, rets, cov, n_stocks, solver,
              n_days, backtesting_data, backtesting_rets, day, day_counter,
              periods_counter, value, w, call_prices, call_period, caller,
              rets_benchmark, ret, df, pc, err, optLog, w_call, applied>>

\* _validate_confidence(conf), the first statement of the validating operations
ValidateConfidence ==
    /\ step = "call"
    /\ op \in ValidatingOps
    /\ step' = IF ValidConfidence(conf) THEN "validated" ELSE "raised"
    /\ UNCHANGED <<op, conf, long, work, data, positions, out, backtest>>

\* the operation reads its data: sort_index, pct_change, the weighted series
\* (self.rets.values in the optimizers)
ReadData ==
    /\ step = (IF op \in ValidatingOps THEN "validated" ELSE "call")
    /\ work' = Append(work, "data")
    /\ step' = "data"
    /\ UNCHANGED <<op, conf, long, data, positions, out, backtest>>

\* the percentile of the series (inside the solver's objective in the
\* optimizers), then the result
Compute ==
    /\ step = "data"
    /\ IF PercentileAccepts(PercentileArg(op, conf, long))
         THEN /\ work' = Append(work, "percentile")
              /\ step' = "returned"
         ELSE /\ work' = work
              /\ step' = "raised"
    /\ UNCHANGED <<op, conf, long, data, positions, out, backtest>>

NextCall ==
    \/ ValidateConfidence
    \/ ReadData
    \/ Compute

SpecCall == InitCall /\ [][NextCall]_vars

(* ---------------------------------------------------------- risk metrics *)
\* a missing number: what the mean of an empty selection is
NaN == <<0, 0>>
IsNaN(x) == x[2] = 0

\* arithmetic in which a missing operand gives a missing result
NAbs(x) == IF IsNaN(x) THEN NaN ELSE RAbs(x)
NNeg(x) == IF IsNaN(x) THEN NaN ELSE <<-x[1], x[2]>>
NAdd(p, q) == IF IsNaN(p) \/ IsNaN(q) THEN NaN ELSE RAdd(p, q)
NMul(p, q) == IF IsNaN(p) \/ IsNaN(q) THEN NaN ELSE RMul(p, q)

\* p / q for q # 0
RDiv(p, q) ==
    IF q[1] < 0 THEN Norm(-(p[1] * q[2]), -(p[2] * q[1]))
    ELSE Norm(p[1] * q[2], p[2] * q[1])

\* the sum of the integers of a vector
Total(v) == Sum([a \in 1..Len(v) |-> <<v[a], 1>>])[1]

\* data.sort_index(): the rows in ascending date order
RECURSIVE InsertRow(_, _)
InsertRow(row, s) ==
    IF s = <<>> THEN <<row>>
    ELSE IF row.date <= Head(s).date THEN <<row>> \o s
    ELSE <<Head(s)>> \o InsertRow(row, Tail(s))

RECURSIVE SortIndex(_)
SortIndex(d) == IF d = <<>> THEN <<>> ELSE InsertRow(Head(d), SortIndex(Tail(d)))

\* the values of a series in ascending order
RECURSIVE InsertVal(_, _)
InsertVal(x, s) ==
    IF s = <<>> THEN <<x>>
    ELSE IF RLeq(x, Head(s)) THEN <<x>> \o s
    ELSE <<Head(s)>> \o InsertVal(x, Tail(s))

RECURSIVE SortVals(_)
SortVals(s) == IF s = <<>> THEN <<>> ELSE InsertVal(Head(s), SortVals(Tail(s)))

\* np.percentile(s, q) of a non-empty series, 0 <= q <= 100: the value at rank
\* (n-1)*q/100 of the sorted series, linearly interpolated between neighbours
Percentile(s, q) ==
    LET n == Len(s)
        srt == SortVals(s)
        h == (n - 1) * q
        lo == h \div 100
        fr == Norm(h % 100, 100)
    IN  IF lo + 1 >= n THEN srt[n]
        ELSE RAdd(srt[lo + 1], RMul(fr, RSub(srt[lo + 2], srt[lo + 1])))

RECURSIVE SumAt(_, _, _)
SumAt(s, idx, k) ==
    IF k = 0 THEN Zero
    ELSE RAdd(SumAt(s, idx, k - 1), IF k \in idx THEN s[k] ELSE Zero)

\* s[mask].mean(), the mask given as the set of selected positions: the mean
\* of an empty selection is NaN (numpy warns, it does not raise)
MeanAt(s, idx) ==
    IF idx = {} THEN NaN ELSE RMul(SumAt(s, idx, Len(s)), <<1, Cardinality(idx)>>)

\* column a of a table of vectors
Column(rows, a) == [j \in 1..Len(rows) |-> rows[j][a]]

\* np.dot(w, rt.T): the weighted return of each row
Dot(wv, rt) == [j \in 1..Len(rt) |-> Sum(Times(rt[j].r, wv))]

\* the mask of the tail: portfolio_return < var_pct if long, > var_pct if short
TailDaysInclusive(pr, thr, lg) ==
    {j \in 1..Len(pr) : IF lg THEN RLeq(pr[j], thr) ELSE RLeq(thr, pr[j])}
TailDays(pr, thr, lg) ==
    {j \in 1..Len(pr) : IF lg THEN RLess(pr[j], thr) ELSE RLess(thr, pr[j])}

\* w = stock_value / portfolio_value
StockWeightsRaw(stock_value, portfolio_value) ==
    [a \in 1..Len(stock_value) |-> <<stock_value[a], 1>>]
StockWeights(stock_value, portfolio_value) ==
    [a \in 1..Len(stock_value) |-> Norm(stock_value[a], portfolio_value)]

\* an operation that raised e
Fails(e) == [raised |-> e]

\* var_pct, cvar_pct, the cash amounts and the table of var_stocks and
\* var_forex, from the portfolio return series and the portfolio's value.
\* np.percentile of an empty series raises inside numpy.  pct and cash are the
\* table's Porcentaje/Porcentual and cash/Cash columns, rows VaR and cVaR.
Historical(o, pr, base, c, lg) ==
    IF Len(pr) = 0 THEN Fails("IndexError")
    ELSE LET var_pct == Percentile(pr, PercentileArg(o, c, lg))
             tail == TailDays(pr, var_pct, lg)
             cvar_pct == IF lg THEN NAbs(MeanAt(pr, tail)) ELSE MeanAt(pr, tail)
             var_cash == NAbs(NMul(<<base, 1>>, var_pct))
             cvar_cash == NMul(<<base, 1>>, cvar_pct)
         IN  [raised |-> "none", series |-> pr, var_pct |-> var_pct, tail |-> tail,
              cvar_pct |-> cvar_pct,
              pct |-> <<NAbs(var_pct), cvar_pct>>,
              cash |-> <<var_cash, cvar_cash>>]

VarStocks(d, n, c, lg) ==
    IF ~ValidConfidence(c) THEN Fails("ValueError")
    ELSE IF Len(d) = 0 THEN Fails("IndexError")    \* data.iloc[-1]
    ELSE LET sorted == SortIndex(d)
             rt == PctChange(sorted)
             stock_value == [a \in 1..Len(n) |-> n[a] * Last(sorted).px[a]]
             portfolio_value == Total(stock_value)
             wv == StockWeights(stock_value, portfolio_value)
         IN  Historical("risk.var_stocks", Dot(wv, rt), portfolio_value, c, lg)

VarForex(d, pos, c, lg) ==
    IF ~ValidConfidence(c) THEN Fails("ValueError")
    ELSE LET sorted == SortIndex(d)
             total == [j \in 1..Len(sorted) |->
                          Total([a \in 1..Len(pos) |-> sorted[j].px[a] * pos[a]])]
             portfolio_return ==
                 [j \in 1..(IF Len(total) = 0 THEN 0 ELSE Len(total) - 1) |->
                     Norm(total[j + 1] - total[j], total[j])]
         IN  Historical("risk.var_forex", portfolio_return,
                        IF Len(total) = 0 THEN 0 ELSE Last(total), c, lg)

VarWeights(d, weights, c) ==
    IF ~ValidConfidence(c) THEN Fails("ValueError")
    ELSE LET rt == PctChange(SortIndex(d))
             portfolio_returns == Dot(weights, rt)
         IN  IF Len(portfolio_returns) = 0 THEN Fails("IndexError")
             ELSE [raised |-> "none", series |-> portfolio_returns,
                   var |-> NAbs(Percentile(portfolio_returns, 100 - c))]

CvarWeights(d, weights, c) ==
    IF ~ValidConfidence(c) THEN Fails("ValueError")
    ELSE LET rt == PctChange(SortIndex(d))
             portfolio_returns == Dot(weights, rt)
         IN  IF Len(portfolio_returns) = 0 THEN Fails("IndexError")
             ELSE LET var == Percentile(portfolio_returns, 100 - c)
                      tail == TailDays(portfolio_returns, var, TRUE)
                  IN  [raised |-> "none", series |-> portfolio_returns, var |-> var,
                       tail |-> tail,
                       cvar |-> NAbs(MeanAt(portfolio_returns, tail))]

\* the days whose returns of asset i enter its contribution
OwnTailDays(returns, i, bad_days_portfolio, q) ==
    LET own == [j \in 1..Len(returns) |-> returns[j].r[i]]
    IN  {j \in 1..Len(own) : RLess(own[j], Percentile(own, q))}
AssetTailDays(returns, i, bad_days_portfolio, q) == bad_days_portfolio

\* -returns.iloc[:, i][bad_days_portfolio].mean() * weights[i]
AssetContributionUnweighted(mean, weight) == NNeg(mean)
AssetContribution(mean, weight) == NMul(NNeg(mean), weight)

CvarContributions(weights, returns, a) ==
    IF ~ValidConfidence(a) THEN Fails("ValueError")
    ELSE LET n_assets == Len(weights)
             portfolio_returns == Dot(weights, returns)
         IN  IF Len(portfolio_returns) = 0 THEN Fails("IndexError")
             ELSE LET var == Percentile(portfolio_returns, 100 - a)
                      bad_days_portfolio == TailDays(portfolio_returns, var, TRUE)
                  IN  [raised |-> "none", series |-> portfolio_returns, var |-> var,
                       bad_days |-> bad_days_portfolio,
                       contributions |->
                           [i \in 1..n_assets |->
                               AssetContribution(
                                   MeanAt([j \in 1..Len(returns) |-> returns[j].r[i]],
                                          AssetTailDays(returns, i, bad_days_portfolio,
                                                        100 - a)),
                                   weights[i])]]

\* the days the optimizer's objectives average over: pr <= var
WorstDays(pr, var) == {j \in 1..Len(pr) : RLeq(pr[j], var)}

\* cvar_objective(w) inside opt_min_cvar, reached after the method's
\* _validate_confidence: -pr[pr <= var].mean()
CvarObjective(returns, wv, a) ==
    IF ~ValidConfidence(a) THEN Fails("ValueError")
    ELSE LET pr == Dot(wv, returns)
         IN  IF Len(pr) = 0 THEN Fails("IndexError")
             ELSE LET var == Percentile(pr, 100 - a)
                      tail == WorstDays(pr, var)
                  IN  [raised |-> "none", series |-> pr, var |-> var, tail |-> tail,
                       objective |-> NNeg(MeanAt(pr, tail))]

\* individual_cvar_contributions(w) inside opt_mcc, and objective(w), their
\* maximum
IndividualCvarContributions(returns, wv, a, n_assets) ==
    IF ~ValidConfidence(a) THEN Fails("ValueError")
    ELSE LET pr == Dot(wv, returns)
         IN  IF Len(pr) = 0 THEN Fails("IndexError")
             ELSE LET var == Percentile(pr, 100 - a)
                      bad_days == WorstDays(pr, var)
                      contributions ==
                          [i \in 1..n_assets |->
                              NMul(NNeg(MeanAt([j \in 1..Len(returns) |-> returns[j].r[i]],
                                               bad_days)),
                                   wv[i])]
                  IN  [raised |-> "none", series |-> pr, var |-> var,
                       bad_days |-> bad_days, contributions |-> contributions,
                       objective |-> MaxOf(contributions)]

\* var_apl on a table of quotes (px the Bid columns, ask the Ask columns)
VarApl(d, posiciones, c, lg) ==
    IF ~ValidConfidence(c) THEN Fails("ValueError")
    ELSE IF Len(d) = 0 THEN Fails("IndexError")    \* data[mid_columns].iloc[-1]
    ELSE LET sorted == SortIndex(d)
             n == Len(posiciones)
             T == Len(sorted)
             mid == [j \in 1..T |->
                        [a \in 1..n |-> Norm(sorted[j].px[a] + sorted[j].ask[a], 2)]]
             spread == [j \in 1..T |->
                           [a \in 1..n |->
                               RDiv(<<sorted[j].ask[a] - sorted[j].px[a], 1>>, mid[j][a])]]
             position_value == [a \in 1..n |-> RMul(<<posiciones[a], 1>>, mid[T][a])]
             pv == Sum(position_value)
             wv == [a \in 1..n |-> RDiv(position_value[a], pv)]
             \* the first row of the returns is NaN and is dropped by dropna()
             port_ret == [j \in 1..(T - 1) |->
                             Sum(Times([a \in 1..n |->
                                           RDiv(RSub(mid[j + 1][a], mid[j][a]), mid[j][a])],
                                       wv))]
         IN  IF Len(port_ret) = 0 THEN Fails("IndexError")
             ELSE LET var_pct == Percentile(port_ret, PercentileArg("risk.var_apl", c, lg))
                      var_cash == RMul(pv, var_pct)
                      tail == TailDays(port_ret, var_pct, lg)
                      cvar_pct == MeanAt(port_ret, tail)
                      cvar_cash == NMul(pv, cvar_pct)
                      cl_prom == [a \in 1..n |->
                                     RMul(Sum(Column(spread, a)), <<1, T>>)]
                      cl_estr == [a \in 1..n |-> Percentile(Column(spread, a), 99)]
                      sgn == IF lg THEN <<-1, 1>> ELSE One
                      Adjusted(x, by, cl) ==
                          NAbs(NAdd(x, RMul(sgn, Sum(Times(by, cl)))))
                  IN  [raised |-> "none", series |-> port_ret, var_pct |-> var_pct,
                       tail |-> tail, cvar_pct |-> cvar_pct,
                       pct |-> <<NAbs(var_pct), Adjusted(var_pct, wv, cl_prom),
                                 Adjusted(var_pct, wv, cl_estr), NAbs(cvar_pct),
                                 Adjusted(cvar_pct, wv, cl_prom),
                                 Adjusted(cvar_pct, wv, cl_estr)>>,
                       cash |-> <<NAbs(var_cash), Adjusted(var_cash, position_value, cl_prom),
                                  Adjusted(var_cash, position_value, cl_estr), NAbs(cvar_cash),
                                  Adjusted(cvar_cash, position_value, cl_prom),
                                  Adjusted(cvar_cash, position_value, cl_estr)>>]

(* ------------------------------------------- calls of the risk functions *)
\* the price series a column may follow: flat, rising, falling, alternating,
\* mixed
ShapeRows == << <<2, 2, 2, 2, 2, 2>>, <<1, 2, 3, 4, 5, 6>>, <<12, 6, 4, 3, 2, 1>>,
                <<2, 1, 2, 1, 2, 1>>, <<1, 3, 2, 4, 3, 5>> >>

ShapePrice(k, row) == ShapeRows[k][((row - 1) % Len(ShapeRows[k])) + 1]

\* the series of column a in table t
ShapeOf(t, a) == ((t + (a - 1) * (1 + (t \div Len(ShapeRows)))) % Len(ShapeRows)) + 1

\* how far the ask of column a stands above its bid at a row
AskOver(row, a) == 1 + ((row + a) % 2)

\* table t with len rows, handed over in ascending or in descending date order
RiskTable(t, len, descending) ==
    [j \in 1..len |->
        LET row == IF descending THEN len + 1 - j ELSE j
        IN  [date |-> row - 1,
             px |-> [a \in 1..NAssets |-> ShapePrice(ShapeOf(t, a), row)],
             ask |-> [a \in 1..NAssets |->
                         ShapePrice(ShapeOf(t, a), row) + AskOver(row, a)]]]

\* the operations given weights, and those given position sizes
WeightOps == {"risk.var_weights", "risk.cvar_weights", "risk.cvar_contributions"}
                 \cup OptimizerOps

\* the operations that work on a table of returns, not of prices
ReturnOps == {"risk.cvar_contributions"} \cup OptimizerOps

WeightSet == {[a \in 1..NAssets |-> Zero], Uniform(NAssets),
              [a \in 1..NAssets |-> IF a = 1 THEN One ELSE Zero],
              [a \in 1..NAssets |-> IF a = NAssets THEN One ELSE Zero]}

PositionSet == {[a \in 1..NAssets |-> 1], [a \in 1..NAssets |-> a],
                [a \in 1..NAssets |-> NAssets + 1 - a]}

RiskConfSet == {50, 75, 95, 100}

NoOut == [raised |-> "none"]

\* one call of a risk function on its arguments
InitRisk ==
    /\ op \in RiskOps \cup OptimizerOps
    /\ conf \in RiskConfSet
    /\ long \in (IF op \in DirectedOps THEN BOOLEAN ELSE {TRUE})
    /\ \E t \in 0..(MaxTable - 1), len \in 0..MaxRows,
          descending \in (IF op \in ReturnOps THEN {FALSE} ELSE BOOLEAN) :
          data = RiskTable(t, len, descending)
    /\ positions \in (IF op \in WeightOps THEN WeightSet ELSE PositionSet)
    /\ out = NoOut
    /\ step = "call"
    /\ work = <<>>
    /\ prices = <<>>
    /\ prices_benchmark = <<>>
    /\ months = 0
    /\ capital = 0
    /\ alpha = 0
    /\ solver = 0
    /\ Constructed

\* the call returns the function's value or raises
Finish(result) ==
    /\ out' = result
    /\ step' = IF result.raised = "none" THEN "returned" ELSE "raised"
    /\ UNCHANGED <<op, conf, long, work, data, positions, backtest>>

var_stocks ==
    /\ step = "call"
    /\ op = "risk.var_stocks"
    /\ Finish(VarStocks(data, positions, conf, long))

var_forex ==
    /\ step = "call"
    /\ op = "risk.var_forex"
    /\ Finish(VarForex(data, positions, conf, long))

var_weights ==
    /\ step = "call"
    /\ op = "risk.var_weights"
    /\ Finish(VarWeights(data, positions, conf))

cvar_weights ==
    /\ step = "call"
    /\ op = "risk.cvar_weights"
    /\ Finish(CvarWeights(data, positions, conf))

\* the returns argument is the table's data.pct_change().dropna()
cvar_contributions ==
    /\ step = "call"
    /\ op = "risk.cvar_contributions"
    /\ Finish(CvarContributions(positions, PctChange(data), conf))

var_apl ==
    /\ step = "call"
    /\ op = "risk.var_apl"
    /\ Finish(VarApl(data, positions, conf, long))

\* opt_min_cvar as far as one evaluation of its objective, at the weights w
cvar_objective ==
    /\ step = "call"
    /\ op = "optimization.opt_min_cvar"
    /\ Finish(CvarObjective(PctChange(data), positions, conf))

\* opt_mcc as far as one evaluation of its objective, at the weights w
individual_cvar_contributions ==
    /\ step = "call"
    /\ op = "optimization.opt_mcc"
    /\ Finish(IndividualCvarContributions(PctChange(data), positions, conf, NAssets))

NextRisk ==
    \/ var_stocks
    \/ var_forex
    \/ var_weights
    \/ cvar_weights
    \/ cvar_contributions
    \/ var_apl
    \/ cvar_objective
    \/ individual_cvar_contributions

SpecRisk == InitRisk /\ [][NextRisk]_vars

(* ================================================================ claims *)
Capital == <<capital, 1>>

\* 1 + sum_i r[d,i] * wv[i], with r[d] row d (from 1) of the backtesting returns
DailyFactor(d, wv) == RAdd(One, Sum(Times(backtesting_rets[d].r, wv)))

\* the weights strategy s was given by the optimization applied on day d
WeightsOn(d, s) == optLog[applied[d]].res[s].w

RECURSIVE Compounded(_, _)
Compounded(s, d) ==
    IF d = 0 THEN Capital
    ELSE RMul(Compounded(s, d - 1), DailyFactor(d, WeightsOn(d, s)))

\* C1: the value appended for a day is the strategy's previous value times
\* 1 + sum_i r[d,i] * w_s[i], with r[d] that day's out-of-sample return row and
\* w_s the strategy's own current weights; at the end each strategy's last
\* value is the capital times the product of the daily factors.
C1_OwnWeightedReturn ==
    \A s \in Strategies :
        /\ Len(value[s]) >= 2 =>
              Last(value[s]) = RMul(value[s][Len(value[s]) - 1],
                                    DailyFactor(Len(value[s]) - 1, w[s]))
        /\ pc = "done" => Last(value[s]) = Compounded(s, Len(applied))

C1_Witness ==
    /\ pc = "done"
    /\ Len(optLog) >= 2
    /\ \E s, t \in Strategies :
          /\ Last(value[s]) # Last(value[t])
          /\ Last(value[s]) # Capital
          /\ w[s] # w[t]

\* day d (from 1) is computed from backtesting price rows d and d+1
NoLookAheadOn(d) ==
    LET c == optLog[applied[d]]
        first == backtesting_data[d].date
    IN  /\ \A j \in 1..Len(c.rows) : c.rows[j] < first
        /\ \A j \in 1..Len(c.bench) : c.bench[j] < first

\* C2: the weights applied to a simulated day were optimized only from asset
\* and benchmark price rows dated strictly before the rows of that day's
\* return, on ordinary days and on rebalancing days alike.
C2_NoLookAhead ==
    /\ applied # <<>> => NoLookAheadOn(Len(applied))
    /\ pc = "done" => \A d \in 1..Len(applied) : NoLookAheadOn(d)

\* just after a rebalancing day
C2_Witness ==
    /\ pc = "loop"
    /\ periods_counter >= 2
    /\ day_counter = 1
    /\ applied[Len(applied)] = Len(optLog)
    /\ optLog[Len(optLog)].rows # <<>>

\* C3: the initial weights serve days 0..n_days-1 and the k-th re-optimization
\* happens exactly on day k*n_days, so day d (from 0) runs on the weights of
\* optimization 1 + d div n_days; the six weights in use always come from one
\* and the same optimization.
C3_HeldUntilRebalance ==
    /\ \A d \in 1..Len(applied) : applied[d] = 1 + ((d - 1) \div n_days)
    /\ w_call >= 1 => \A s \in Strategies : w[s] = optLog[w_call].res[s].w
    /\ w_call = 0 => w = NoWeights
    /\ pc = "done" => Len(optLog) = 1 + ((IF day = 0 THEN 0 ELSE day - 1) \div n_days)

C3_Witness ==
    /\ pc = "done"
    /\ Len(optLog) >= 3
    /\ Len(applied) > 2 * n_days

\* C4: the first optimization reads rows [0, n_days) of the full history with
\* period 0; the k-th re-optimization reads rows [(k-1)*n_days, k*n_days) of the
\* backtesting region with period k-1.
C4_Windows ==
    \A c \in 1..Len(optLog) :
        IF c = 1
          THEN /\ optLog[c].periods = 0
               /\ optLog[c].rows = [j \in 1..n_days |-> j - 1]
          ELSE /\ optLog[c].periods = c - 2
               /\ optLog[c].rows =
                     [j \in 1..n_days |-> backtesting_data[(c - 2) * n_days + j].date]
               /\ \A j \in 1..n_days : optLog[c].rows[j] >= n_days

C4_Witness ==
    /\ Len(optLog) >= 4
    /\ optLog[4].periods = 2

\* C5: in every optimize_weights call the benchmark slice covers the same
\* dates as the asset window being optimized.
C5_BenchmarkAligned ==
    \A c \in 1..Len(optLog) : optLog[c].bench = optLog[c].rows

\* C6 as claimed: a history of exactly n_days rows gives one optimization and
\* n_days - 1 simulated growth rows per strategy.
C6_OneWindowClaimed ==
    (pc = "done" /\ Len(prices) = n_days) =>
        /\ Len(optLog) = 1
        /\ \A s \in Strategies : Len(df.columns[s]) - 1 = n_days - 1

\* C6 amended: a history of exactly n_days rows gives one optimization and no
\* simulated growth row (each series holds the capital alone); it is a
\* backtesting region of exactly n_days rows that gives one optimization and
\* n_days - 1 growth rows.
C6_OneWindow ==
    pc = "done" =>
        /\ Len(prices) = n_days =>
              /\ Len(optLog) = 1
              /\ \A s \in Strategies : value[s] = <<Capital>> /\ df.columns[s] = <<Capital>>
        /\ Len(backtesting_data) = n_days =>
              /\ Len(optLog) = 1
              /\ \A s \in Strategies : Len(df.columns[s]) - 1 = n_days - 1

C6_Witness ==
    /\ pc = "done"
    /\ Len(prices) = n_days
    /\ \A s \in Strategies : optLog[1].res[s].ran

\* C7 as claimed: six series starting at the capital, indexed by the
\* backtesting region's dates without the first.
C7_IndexClaimed ==
    (pc = "done" /\ backtesting_data # <<>>) =>
        /\ DOMAIN df.columns = Strategies
        /\ \A s \in Strategies : df.columns[s][1] = Capital
        /\ df.index = SubSeq(Dates(backtesting_data), 2, Len(backtesting_data))

\* C7 amended: six series starting at the capital, one value per date of the
\* index, and the index is the backtesting region's whole date index, first
\* row included (that row carries the capital); an empty region leaves the
\* one capital row with a missing date.
C7_ResultShape ==
    pc = "done" =>
        /\ DOMAIN df.columns = Strategies
        /\ \A s \in Strategies : /\ df.columns[s][1] = Capital
                                  /\ Len(df.columns[s]) = Len(df.index)
        /\ backtesting_data # <<>> => df.index = Dates(backtesting_data)
        /\ backtesting_data = <<>> => df.index = <<NaT>>

C7_Witness ==
    /\ pc = "done"
    /\ Len(optLog) >= 2
    /\ Len(df.index) = Len(backtesting_data)
    /\ df.index[1] = n_days

\* the bound the strategy declares for each weight
DeclaredBound(s) ==
    CASE s \in {"minvar", "min_cvar", "mcc"} -> Box(0, 1)
      [] s \in {"semivar", "omega"} -> Box(0, 3)
      [] s = "sharpe" -> BoxFrom(0)

\* |sum(w) - 1| < 1e-6 and every component inside the declared bound
Feasible(wv, s) ==
    /\ RLess(RAbs(RSub(Sum(wv), One)), <<1, 1000000>>)
    /\ InBounds(wv, DeclaredBound(s))

C9_RejectedFirst ==
    (step # "none" /\ ~ValidConfidence(conf)) =>
        /\ work = <<>>
        /\ step \in {"call", "raised"}

\* C10: when alpha is outside (0,100) the backtest fails before any of the six
\* optimizations has run and before any day is simulated.
C10_FailsBeforeOptimizing ==
    err = "ValueError" =>
        /\ \A c \in 1..Len(optLog) : \A s \in Strategies : ~optLog[c].res[s].ran
        /\ applied = <<>>

\* x is a number and is not below zero
NonNeg(x) == ~IsNaN(x) /\ x[1] >= 0
\* x is a number below zero
Negative(x) == ~IsNaN(x) /\ x[1] < 0

\* C11: the VaR that var_weights returns and the percentage VaR in the table of
\* var_stocks are numbers >= 0 whenever the call returns, and the percentage
\* VaR of var_stocks is the same when every position size is multiplied by the
\* same positive factor.
C11_NonNegativeScaleFree ==
    step = "returned" =>
        /\ op = "risk.var_weights" => NonNeg(out.var)
        /\ op = "risk.var_stocks" =>
              /\ NonNeg(out.pct[1])
              /\ \A k \in 1..MaxScale :
                    VarStocks(data, [a \in 1..NAssets |-> k * positions[a]], conf,
                              long).pct[1] = out.pct[1]

C11_Witness ==
    /\ step = "returned"
    /\ op = "risk.var_stocks"
    /\ out.var_pct[1] < 0
    /\ positions[1] # positions[NAssets]
    /\ Len(out.series) >= 3

\* C12: for long positions the CVaR is at least the VaR: cvar_weights returns
\* at least what var_weights returns on the same arguments, and the CVaR
\* percentage of var_stocks is at least its VaR percentage (a missing CVaR is
\* let through here).
C12_CVaRAtLeastVaR ==
    step = "returned" =>
        /\ op = "risk.cvar_weights" =>
              \/ IsNaN(out.cvar)
              \/ RLeq(VarWeights(data, positions, conf).var, out.cvar)
        /\ (op = "risk.var_stocks" /\ long) =>
              \/ IsNaN(out.pct[2])
              \/ RLeq(out.pct[1], out.pct[2])

\* C13: in var_stocks, var_forex and var_apl the threshold is the percentile
\* of rank 100-conf (long) or conf (short) of the portfolio returns: at most
\* rank-many returns lie strictly below it and more than rank-many lie at or
\* below it; the tail is exactly the returns strictly below (long) or strictly
\* above (short) the threshold, so no return equal to the threshold is in it,
\* and the CVaR is the mean of the tail (missing when the tail is empty).
C13_ThresholdAndStrictTail ==
    (step = "returned" /\ op \in {"risk.var_stocks", "risk.var_forex", "risk.var_apl"}) =>
        LET pr == out.series
            q == IF long THEN 100 - conf ELSE conf
            thr == out.var_pct
            below == {j \in 1..Len(pr) : RLess(pr[j], thr)}
            above == {j \in 1..Len(pr) : RLess(thr, pr[j])}
            beyond == IF long THEN below ELSE above
        IN  /\ thr = Percentile(pr, q)
            /\ 100 * Cardinality(below) < (Len(pr) - 1) * q + 100
            /\ 100 * (Len(pr) - Cardinality(above)) > (Len(pr) - 1) * q
            /\ out.tail = beyond
            /\ \A j \in out.tail : pr[j] # thr
            /\ IF beyond = {} THEN IsNaN(out.cvar_pct)
               ELSE RAbs(out.cvar_pct) =
                        RAbs(RMul(SumAt(pr, beyond, Len(pr)), <<1, Cardinality(beyond)>>))

C13_Witness ==
    /\ step = "returned"
    /\ op = "risk.var_forex"
    /\ ~long
    /\ out.tail # {}
    /\ \E j \in 1..Len(out.series) : out.series[j] = out.var_pct

\* C14: cvar_contributions takes the tail days once, as the days whose
\* portfolio return is strictly below the portfolio's percentile of rank
\* 100-alpha, and the contribution of each asset is minus the mean of that
\* asset's returns on those days, times its weight.
C14_SharedTailDays ==
    (step = "returned" /\ op = "risk.cvar_contributions") =>
        LET returns == PctChange(data)
            pr == [j \in 1..Len(returns) |-> Sum(Times(returns[j].r, positions))]
            thr == Percentile(pr, 100 - conf)
            bad == {j \in 1..Len(pr) : RLess(pr[j], thr)}
        IN  /\ out.bad_days = bad
            /\ \A i \in 1..NAssets :
                  out.contributions[i] =
                      IF bad = {} THEN NaN
                      ELSE RMul(RMul(<<-1, 1>>,
                                     RMul(SumAt(Column([j \in 1..Len(returns) |-> returns[j].r],
                                                       i), bad, Len(returns)),
                                          <<1, Cardinality(bad)>>)),
                                positions[i])

C14_Witness ==
    /\ step = "returned"
    /\ op = "risk.cvar_contributions"
    /\ out.bad_days # {}
    /\ \E i \in 1..NAssets :
          /\ positions[i] # Zero
          /\ OwnTailDays(PctChange(data), i, out.bad_days, 100 - conf) # out.bad_days
          /\ out.contributions[i] # Zero

\* C15: with every weight zero and at least two rows of returns, var_weights
\* and cvar_weights return the number 0.
C15_ZeroWeightsZeroRisk ==
    (/\ step # "call"
     /\ op \in {"risk.var_weights", "risk.cvar_weights"}
     /\ ValidConfidence(conf)
     /\ Len(PctChange(data)) >= 2
     /\ \A a \in 1..NAssets : positions[a] = Zero) =>
        /\ step = "returned"
        /\ op = "risk.var_weights" => out.var = Zero
        /\ op = "risk.cvar_weights" => out.cvar = Zero

\* C16: on a table with no row or one row of returns, var_weights,
\* cvar_weights, var_stocks, var_forex and cvar_contributions raise (the
\* claim names the error InsufficientData; any raise is let through here).
C16_TooFewRowsRaise ==
    (/\ step # "call"
     /\ op \in {"risk.var_weights", "risk.cvar_weights", "risk.var_stocks",
                "risk.var_forex", "risk.cvar_contributions"}
     /\ ValidConfidence(conf)
     /\ Len(PctChange(data)) <= 1) =>
        step = "raised"

\* C17: every strategy that ran returned exactly the solver's final iterate,
\* converged or not; a run stops with an error only for a zero number of
\* periods or an invalid alpha, never for a solver that did not converge; the
\* weights in use are the iterates of the optimization last returned; and at
\* the end every window of the backtesting region has been optimized.
C17_NonConvergenceNeverFails ==
    /\ \A c \in 1..Len(optLog) : \A s \in Strategies :
          optLog[c].res[s].ran => optLog[c].res[s].w = optLog[c].res[s].x
    /\ pc = "error" =>
          \/ err = "ZeroDivisionError" /\ optLog = <<>>
          \/ err = "ValueError" /\ ~ValidConfidence(alpha)
    /\ w_call >= 1 => \A s \in Strategies : w[s] = optLog[w_call].res[s].x
    /\ pc = "done" =>
          /\ Len(optLog) = 1 + ((IF day = 0 THEN 0 ELSE day - 1) \div n_days)
          /\ \A c \in 1..Len(optLog) : \A s \in Strategies : optLog[c].res[s].ran

C17_Witness ==
    /\ pc = "done"
    /\ Len(optLog) >= 3
    /\ \E s \in Strategies :
          /\ ~optLog[1].res[s].success
          /\ optLog[1].res[s].x # optLog[1].res[s].x0
    /\ \E d \in 1..Len(applied) : applied[d] = 1

\* C18: whenever a strategy's solver did not converge, the value the strategy
\* returned carries the convergence status next to the iterate.
C18_NonConvergenceFlagged ==
    \A c \in 1..Len(optLog) : \A s \in Strategies :
        (optLog[c].res[s].ran /\ ~optLog[c].res[s].success) =>
            "success" \in optLog[c].res[s].carries

\* C19: no entry of the tables of var_stocks, var_forex and var_apl, VaR or
\* CVaR, percentage or cash, long or short, is a number below zero.
C19_MagnitudesNonNegative ==
    (step = "returned" /\ op \in {"risk.var_stocks", "risk.var_forex", "risk.var_apl"}) =>
        \A k \in 1..Len(out.pct) : ~Negative(out.pct[k]) /\ ~Negative(out.cash[k])

\* C20: a run with capital <= 0, months <= 0 or a number of periods that
\* rounds to 0 never gets past its start (no value series, no optimization),
\* and no run stops with a division by zero.
C20_BadRunParametersRejected ==
    /\ err # "ZeroDivisionError"
    /\ (capital <= 0 \/ months <= 0 \/ Periods(Len(prices), months) = 0) =>
          /\ pc \in {"start", "error"}
          /\ optLog = <<>>
          /\ \A s \in Strategies : value[s] = <<>>

\* C21: once a run has started, n_days is round(L / round(L/252/(months/12)))
\* for a history of L rows, the initial optimization window is rows [0, n_days)
\* and the backtesting region rows [n_days, L): the window followed by the
\* region is the price history itself, row for row.
C21_WindowAndRegionSplit ==
    pc \notin {"start", "error"} =>
        LET L == Len(prices)
        IN  /\ n_days = PyRound(L, PyRound(MonthsPerYear * L, TradingDays * months))
            /\ 0 <= n_days /\ n_days <= L
            /\ backtesting_data = [j \in 1..(L - n_days) |-> prices[n_days + j]]
            /\ caller = "initial" =>
                  /\ Len(call_prices) = n_days
                  /\ call_prices \o backtesting_data = prices

C21_Witness ==
    /\ pc = "slice"
    /\ caller = "initial"
    /\ n_days >= 2
    /\ Len(backtesting_data) >= 2
    /\ 2 * n_days > Len(prices)

\* C22: every strategy that ran started from the uniform vector 1/N, under the
\* constraint sum(w) - 1 = 0 (which the uniform vector satisfies), with the
\* bound declared for it on every asset.
C22_UniformStartDeclaredBound ==
    \A c \in 1..Len(optLog) : \A s \in Strategies :
        optLog[c].res[s].ran =>
            /\ optLog[c].res[s].x0 = Uniform(NAssets)
            /\ constraint(optLog[c].res[s].x0) = Zero
            /\ optLog[c].res[s].bounds = DeclaredBound(s)

\* the pc values at which a strategy of optimize_weights is about to run
StrategySteps == {"opt_min_var", "opt_max_sharpe", "opt_min_semivar", "opt_max_omega",
                  "opt_min_cvar", "opt_mcc"}

\* the slice of the window being optimized: prices.iloc[n*p : n*(p+1)]
CurrentWindow == Iloc(call_prices, WindowLo(n_days, call_period), WindowHi(n_days, call_period))

\* the means of the first a columns of the rows rt
RECURSIVE ColumnMeans(_, _)
ColumnMeans(rt, a) ==
    IF a = 0 THEN <<>>
    ELSE Append(ColumnMeans(rt, a - 1),
                RMul(ColumnSum([k \in 1..Len(rt) |-> rt[k].r[a]], 1, Len(rt)), <<1, Len(rt)>>))

\* m is the sample covariance of the rows rt: m is symmetric and
\* (n - 1) m[a][b] is the sum over the rows of the products of the two
\* columns' deviations from their means
IsCovarianceOf(m, rt) ==
    LET n == Len(rt)
    IN  /\ DOMAIN m = 1..NAssets
        /\ \A a \in 1..NAssets : DOMAIN m[a] = 1..NAssets
        /\ \A a, b \in 1..NAssets : m[a][b] = m[b][a]
        /\ IF n < 2 THEN \A a, b \in 1..NAssets : m[a][b] = <<0, 0>>
           ELSE \E mu \in {ColumnMeans(rt, NAssets)} :
                   \A a \in 1..NAssets : \A b \in a..NAssets :
                       RMul(<<n - 1, 1>>, m[a][b]) =
                           ColumnSum([k \in 1..n |-> RMul(RSub(rt[k].r[a], mu[a]),
                                                          RSub(rt[k].r[b], mu[b]))], 1, n)

\* the inherited fields and the window they are computed from
window_fields == <<rets, cov, n_stocks, call_prices, call_period, n_days>>

\* the three inherited fields are the ones of the window sliced for this call
FieldsOfThisWindow ==
    /\ rets = PctChange(CurrentWindow)
    /\ Dates(CurrentWindow) = optLog[Len(optLog)].rows
    /\ IsCovarianceOf(cov, rets)
    /\ n_stocks = NAssets
    /\ \A k \in 1..Len(CurrentWindow) : n_stocks = Len(CurrentWindow[k].px)

\* a step taken by one of the six strategies stays inside optimize_weights
\* and leaves the fields and their window alone
StrategyKeepsFields ==
    pc \in StrategySteps =>
        /\ pc' \in StrategySteps \cup {"return", "error"}
        /\ UNCHANGED window_fields

\* C23: when the first of the six strategies is about to run, rets is the
\* percentage change of the window sliced for this very call, cov is the
\* covariance matrix of that rets and n_stocks is its column count, so they are
\* neither the fields of the dummy construction nor those of an earlier
\* window; and no strategy changes any of the three or the window they come
\* from, so all six run on the same fields.
C23_FieldsOfThisWindow ==
    /\ [](pc = "opt_min_var" => FieldsOfThisWindow)
    /\ [][StrategyKeepsFields]_vars

\* a later window's strategy runs on returns that differ from the first window's
C23_Witness ==
    /\ pc = "opt_mcc"
    /\ Len(optLog) >= 2
    /\ Len(rets) >= 2
    /\ rets # PctChange(Iloc(prices, 0, OptimizationEnd(n_days)))
    /\ \E a \in 1..NAssets : cov[a][a] # Zero

\* a step that changes the six series either creates them, each holding the
\* capital alone, or is a loop step for return day `day`: it appends to every
\* series one value, computed from that day's returns, keeps all earlier
\* values, and moves on to the next day
AppendOnly ==
    value' # value =>
        IF pc = "start" THEN value' = [s \in Strategies |-> << <<capital, 1>> >>]
        ELSE /\ pc' = "loop"
             /\ day' = day + 1
             /\ day' <= Len(backtesting_rets)
             /\ \A s \in Strategies :
                   /\ Len(value'[s]) = Len(value[s]) + 1
                   /\ SubSeq(value'[s], 1, Len(value[s])) = value[s]
                   /\ Last(value'[s]) =
                          RMul(Last(value[s]),
                               RAdd(One, Sum(Times(backtesting_rets[day'].r, w'[s]))))

\* the return days consumed so far are days 1..day, and every series holds
\* the capital and one value per consumed day
ConsumedInOrder ==
    pc \in {"loop", "done"} =>
        /\ Len(applied) = day
        /\ \A s \in Strategies : Len(value[s]) = 1 + day

\* some statement of simulation is about to execute: the guard of one of
\* the actions holds
HasNextStatement ==
    \/ pc \in {"start", "slice", "loop"} \cup StrategySteps
    \/ pc = "return" /\ caller \in {"initial", "rebalance"}

\* the original statement of C24 about the final lengths
C24_SeriesLengthClaimed ==
    pc = "done" =>
        \A s \in Strategies :
            /\ Len(value[s]) = 1 + Len(backtesting_rets)
            /\ Len(value[s]) = Len(backtesting_data)

\* C24: every run of simulation ends, in its result or in a raised error; the
\* series change only by one append per series per loop step, the steps taking
\* the out-of-sample return days in ascending order, each once; and when the
\* result is built every day has been consumed and every series has
\* 1 + (number of out-of-sample return days) entries, which is the number of
\* rows of the backtesting region whenever the region is not empty.
C24_TerminatesAppendOnly ==
    /\ <>Terminated
    /\ [](Terminated \/ HasNextStatement)
    /\ [][AppendOnly]_vars
    /\ []ConsumedInOrder
    /\ [](pc = "done" =>
             /\ day = Len(backtesting_rets)
             /\ \A s \in Strategies :
                   /\ Len(value[s]) = 1 + Len(backtesting_rets)
                   /\ Len(backtesting_data) > 0 => Len(value[s]) = Len(backtesting_data))

\* a run over several windows has ended with every return day consumed
C24_Witness ==
    /\ pc = "done"
    /\ Len(optLog) >= 3
    /\ Len(applied) = Len(backtesting_rets)
    /\ Len(backtesting_rets) >= 2 * n_days
    /\ \A s \in Strategies : Len(value[s]) = Len(backtesting_data)

\* C25: from the moment the loop calls optimize_weights until the call
\* returns, the slice [n_days*periods, n_days*(periods+1)) is taken from the
\* backtesting region, lies inside it without clamping, ends at the row of the
\* day being simulated, and so has exactly n_days price rows; once sliced, the
\* asset and benchmark returns have n_days - 1 rows, at least one.
C25_FullWindowInsideRegion ==
    (caller = "rebalance" /\ pc \in {"slice", "return"} \cup StrategySteps) =>
        /\ call_prices = backtesting_data
        /\ call_period = periods_counter
        /\ 0 <= WindowLo(n_days, call_period)
        /\ WindowLo(n_days, call_period) < WindowHi(n_days, call_period)
        /\ WindowHi(n_days, call_period) <= Len(backtesting_data)
        /\ WindowHi(n_days, call_period) = day
        /\ Len(CurrentWindow) = n_days
        /\ CurrentWindow = [j \in 1..n_days |-> backtesting_data[WindowLo(n_days, call_period) + j]]
        /\ pc # "slice" =>
              /\ Len(optLog[Len(optLog)].rows) = n_days
              /\ Len(rets) = n_days - 1
              /\ Len(rets_benchmark) = n_days - 1
              /\ Len(rets) >= 1

\* the third re-optimization of a run is about to run its first strategy
C25_Witness ==
    /\ caller = "rebalance"
    /\ pc = "opt_min_var"
    /\ call_period = 2
    /\ Len(rets) = n_days - 1
    /\ WindowHi(n_days, call_period) < Len(backtesting_data)

\* C26: when cvar_contributions returns and its tail is not empty, the
\* contributions add up to minus the mean, over the tail days, of the
\* portfolio's weighted returns.
C26_ContributionsAddUp ==
    (step = "returned" /\ op = "risk.cvar_contributions" /\ out.bad_days # {}) =>
        /\ out.series = Dot(positions, PctChange(data))
        /\ Sum(out.contributions) =
               RMul(<<-1, 1>>,
                    RMul(SumAt(out.series, out.bad_days, Len(out.series)),
                         <<1, Cardinality(out.bad_days)>>))

\* two weighted assets both contribute to a non-zero total
C26_Witness ==
    /\ step = "returned"
    /\ op = "risk.cvar_contributions"
    /\ out.bad_days # {}
    /\ Sum(out.contributions) # Zero
    /\ \E a, b \in 1..NAssets :
          /\ a # b
          /\ positions[a] \notin {Zero, One} /\ positions[b] \notin {Zero, One}
          /\ out.contributions[a] # Zero
          /\ out.contributions[b] # Zero

\* C27: evaluated on the same weights, returns and alpha, the objective of
\* opt_mcc works with the tail days and the contributions of
\* risk.cvar_contributions, and the objective of opt_min_cvar averages over
\* the tail days of risk.cvar_weights.
C27_OptimizerTailAgrees ==
    /\ (step = "returned" /\ op = "optimization.opt_mcc") =>
          LET risk == CvarContributions(positions, PctChange(data), conf)
          IN  /\ out.bad_days = risk.bad_days
              /\ out.contributions = risk.contributions
    /\ (step = "returned" /\ op = "optimization.opt_min_cvar") =>
          LET risk == CvarWeights(data, positions, conf)
          IN  /\ out.tail = risk.tail
              /\ MeanAt(out.series, out.tail) = MeanAt(risk.series, risk.tail)

====
